---- MODULE Spec2Model ----
(***************************************************************************)
(* ChromaDBStore (ragbits.document_search.vector_store.chromadb_store):    *)
(* a vector store that keeps text entries in a Chroma collection.  The     *)
(* model covers the module's import, the constructor, store, retrieve and  *)
(* find_similar, together with the collaborators they call: the Chroma     *)
(* client (get_or_create_collection, add, query, column-first results) and *)
(* the embedding provider (embed_text).                                    *)
(***************************************************************************)
EXTENDS Integers, Sequences, FiniteSets, TLC

VARIABLES
    chromadb_available, \* environment: the chromadb package can be imported
    eager_annotations,  \* environment: the interpreter evaluates parameter
                        \* annotations when a def statement runs
    add_policy,         \* backend: what add does with an ID it already holds
    module,             \* "unloaded" | "loaded" | "failed" (import of the file)
    HAS_CHROMADB,       \* module global set by the try/except import
    self,               \* <<>> before construction, <<attributes>> after
    chroma,             \* backend: collection name -> [metadata, ef, rows]
    stored,             \* history: entries passed to store calls that returned
    last                \* the most recent call: inputs, collaborator calls, outcome

vars == <<chromadb_available, eager_annotations, add_policy, module,
          HAS_CHROMADB, self, chroma, stored, last>>

-----------------------------------------------------------------------------
(* Bounds of the model *)

MaxBatch == 2
MaxK == 2

-----------------------------------------------------------------------------
(* Values *)

\* Optional[T]: None is the empty sequence, a present value x is <<x>>
None == <<>>
Some(x) == <<x>>

IndexNames == {"idx"}
DistanceMethods == {"l2", "ip", "cosine"}
MaxDistances == {None, Some(1)}
EmbeddingFunctionKinds == {"Embeddings", "EmbeddingFunction"}
AddPolicies == {"ignore", "overwrite"}
\* what an awaited embed_text call does: it returns, or raises the provider's error
EmbedOutcomes == {"ok", "EmbeddingConnectionError"}

Texts == {"apple", "banana", "cherry"}
Vectors == {<<1, 0>>, <<2, 0>>, <<0, 1>>}

VectorDBEntry(key, vector, metadata) ==
    [key |-> key, vector |-> vector, metadata |-> metadata]

EntryPool ==
    { VectorDBEntry("k1", "apple", "m1"), VectorDBEntry("k2", "apple", "m2"),
      VectorDBEntry("k2", "banana", "m2") }

Batches == UNION { [1..n -> EntryPool] : n \in 0..MaxBatch }

Min(a, b) == IF a <= b THEN a ELSE b

\* the text -> vector map of the embedding model (provider or backend-native)
EmbedOne(text) ==
    CASE text = "apple" -> <<1, 0>>
      [] text = "banana" -> <<2, 0>>
      [] OTHER -> <<0, 1>>

\* Embeddings.embed_text / EmbeddingFunction.__call__: one vector per text, same order
embed_text(texts) == [i \in DOMAIN texts |-> EmbedOne(texts[i])]

\* sha256(s.encode("utf-8")).hexdigest()
sha256_hexdigest(s) ==
    CASE s = "apple" -> "3a7bd3e2360a3d29eea436fcfb7e44c735d117c42d1c1835420b6b9942dd4f1b"
      [] s = "banana" -> "b493d48364afe44d11c0165cf470a4164d1e2609911ef998be868d46ade3de4e"
      [] s = "cherry" -> "2daf0e6c79009f9234ed9baa5bb930898e2847810617e118518d88e4d3140a2e"
      [] s = "k1" -> "6ab9f1eb8f7d3388f4f9d586f66e99fd54080df2c446f0e58668b09c08a16dd0"
      [] s = "k2" -> "015f7e6bc5aeaf483724089e9252cc13b50951a6b69412522765cff4d780306e"

-----------------------------------------------------------------------------
(* The Chroma client, as the store uses it *)

Dot(a, b) == a[1] * b[1] + a[2] * b[2]

\* Euclidean norm; exact for the axis-aligned vectors of Vectors
Norm(a) == a[1] + a[2]

\* distance of the collection's "hnsw:space"
Distance(method, a, b) ==
    CASE method = "l2" -> (a[1] - b[1]) * (a[1] - b[1]) + (a[2] - b[2]) * (a[2] - b[2])
      [] method = "ip" -> 1 - Dot(a, b)
      [] method = "cosine" -> 1 - (Dot(a, b) \div (Norm(a) * Norm(b)))

RowIds(rows) == { rows[i].id : i \in DOMAIN rows }

RowIndex(rows, id) == CHOOSE i \in DOMAIN rows : rows[i].id = id

\* chroma_client.get_or_create_collection(name=..., metadata=..., embedding_function=...)
get_or_create_collection(backend, name, metadata, ef) ==
    IF name \in DOMAIN backend
    THEN backend
    ELSE [n \in DOMAIN backend \cup {name} |->
            IF n = name THEN [metadata |-> metadata, ef |-> ef, rows |-> <<>>]
            ELSE backend[n]]

RECURSIVE AddRows(_, _, _)
\* the rows of a collection after the new rows were added one by one, in order
AddRows(rows, new, policy) ==
    IF new = <<>> THEN rows
    ELSE LET r == Head(new)
             after == IF r.id \in RowIds(rows)
                      THEN IF policy = "overwrite"
                           THEN [rows EXCEPT ![RowIndex(rows, r.id)] = r]
                           ELSE rows
                      ELSE Append(rows, r)
         IN AddRows(after, Tail(new), policy)

\* collection.add(ids=..., embeddings=..., documents=..., metadatas=...);
\* embeddings = None: the collection's own embedding function embeds the documents
add(backend, name, ids, embeddings, documents, metadatas, policy) ==
    LET vecs == IF embeddings = None THEN embed_text(documents) ELSE embeddings[1]
        new == [i \in DOMAIN ids |->
                  [id |-> ids[i], document |-> documents[i],
                   metadata |-> metadatas[i], embedding |-> vecs[i]]]
    IN [backend EXCEPT ![name].rows = AddRows(@, new, policy)]

\* the orders in which a k-NN query may rank the rows: nearest first, ties either way
Rankings(rows, method, q) ==
    { p \in [DOMAIN rows -> DOMAIN rows] :
        /\ \A i, j \in DOMAIN rows : i # j => p[i] # p[j]
        /\ \A i, j \in DOMAIN rows :
              i < j => Distance(method, q, rows[p[i]].embedding)
                         <= Distance(method, q, rows[p[j]].embedding) }

\* collection.query(query_embeddings=[q], n_results=k) or query(query_texts=[t], ...):
\* the set of results the backend may give, column-first, one inner list per query
query(backend, name, q, n_results) ==
    LET rows == backend[name].rows
        method == backend[name].metadata["hnsw:space"]
        n == Min(n_results, Len(rows))
    IN { [documents |-> << [i \in 1..n |-> rows[p[i]].document] >>,
          metadatas |-> << [i \in 1..n |-> rows[p[i]].metadata] >>,
          distances |-> << [i \in 1..n |-> Distance(method, q, rows[p[i]].embedding)] >>]
         : p \in Rankings(rows, method, q) }

-----------------------------------------------------------------------------
(* ChromaDBStore *)

Attrs == self[1]

isinstance_Embeddings(s) == s.embedding_function = "Embeddings"

\* the attributes __init__ assigns
__init__(index_name, embedding_function, max_distance, distance_method) ==
    [index_name |-> index_name,
     chroma_client |-> "chroma_client",
     embedding_function |-> embedding_function,
     max_distance |-> max_distance,
     _metadata |-> ("hnsw:space" :> distance_method)]

IndexError == [status |-> "raised", error |-> "IndexError", value |-> None]

Returned(v) == [status |-> "ok", error |-> "", value |-> v]

\* variant of _get_chroma_collection that leaves the metric to the backend's default
_get_chroma_collection_default_metric(s, backend) ==
    LET ef == IF isinstance_Embeddings(s) THEN "default" ELSE s.embedding_function
        metadata == ("hnsw:space" :> "l2")
    IN [backend |-> get_or_create_collection(backend, s.index_name, metadata, ef),
        call |-> [fn |-> "get_or_create_collection", name |-> s.index_name,
                  metadata |-> metadata, embedding_function |-> ef]]

\* the backend after the call, and the call issued
_get_chroma_collection(s, backend) ==
    LET ef == IF isinstance_Embeddings(s) THEN "default" ELSE s.embedding_function
    IN [backend |-> get_or_create_collection(backend, s.index_name, s._metadata, ef),
        call |-> [fn |-> "get_or_create_collection", name |-> s.index_name,
                  metadata |-> s._metadata, embedding_function |-> ef]]

\* variant of _return_best_match that rejects a match at exactly max_distance
_return_best_match_strict(s, retrieved) ==
    IF s.max_distance = None
    THEN IF Len(retrieved.documents[1]) = 0 THEN IndexError
         ELSE Returned(Some(retrieved.documents[1][1]))
    ELSE IF Len(retrieved.distances[1]) = 0 THEN IndexError
         ELSE IF retrieved.distances[1][1] < s.max_distance[1]
              THEN IF Len(retrieved.documents[1]) = 0 THEN IndexError
                   ELSE Returned(Some(retrieved.documents[1][1]))
              ELSE Returned(None)

_return_best_match(s, retrieved) ==
    IF s.max_distance = None
    THEN IF Len(retrieved.documents[1]) = 0 THEN IndexError
         ELSE Returned(Some(retrieved.documents[1][1]))
    ELSE IF Len(retrieved.distances[1]) = 0 THEN IndexError
         ELSE IF retrieved.distances[1][1] <= s.max_distance[1]
              THEN IF Len(retrieved.documents[1]) = 0 THEN IndexError
                   ELSE Returned(Some(retrieved.documents[1][1]))
              ELSE Returned(None)

\* the list comprehension of store
formatted_data(entries) ==
    [i \in DOMAIN entries |->
        [text |-> entries[i].vector,
         metadata |-> [key |-> entries[i].key, metadata |-> entries[i].metadata]]]

\* variant of StorageId that hashes the entry's key
StorageIdOfKey(item) == sha256_hexdigest(item.metadata.key)

\* the ID _store derives for one item
StorageId(item) == sha256_hexdigest(item.text)

\* variant of _store that pairs each text with the metadata of the mirrored position
_store_mirrored_metadata(s, backend, data, embed_outcome, policy) ==
    LET ids == [i \in DOMAIN data |-> sha256_hexdigest(data[i].text)]
        texts == [i \in DOMAIN data |-> data[i].text]
        metadata == [i \in DOMAIN data |-> data[Len(data) + 1 - i].metadata]
        coll == _get_chroma_collection(s, backend)
        embed_call == [fn |-> "embed_text", texts |-> texts]
    IN IF isinstance_Embeddings(s)
       THEN IF embed_outcome # "ok"
            THEN [backend |-> coll.backend,
                  calls |-> <<coll.call, embed_call>>,
                  status |-> "raised", error |-> embed_outcome]
            ELSE LET embeddings == embed_text(texts)
                 IN [backend |-> add(coll.backend, s.index_name, ids, Some(embeddings),
                                     texts, metadata, policy),
                     calls |-> <<coll.call, embed_call,
                                 [fn |-> "add", ids |-> ids, embeddings |-> Some(embeddings),
                                  documents |-> texts, metadatas |-> metadata]>>,
                     status |-> "ok", error |-> ""]
       ELSE [backend |-> add(coll.backend, s.index_name, ids, None, texts, metadata, policy),
             calls |-> <<coll.call,
                         [fn |-> "add", ids |-> ids, embeddings |-> None,
                          documents |-> texts, metadatas |-> metadata]>>,
             status |-> "ok", error |-> ""]

\* variant of _store that, when embed_text raises, falls back to an add without embeddings
_store_fallback_add(s, backend, data, embed_outcome, policy) ==
    LET ids == [i \in DOMAIN data |-> sha256_hexdigest(data[i].text)]
        texts == [i \in DOMAIN data |-> data[i].text]
        metadata == [i \in DOMAIN data |-> data[i].metadata]
        coll == _get_chroma_collection(s, backend)
        embed_call == [fn |-> "embed_text", texts |-> texts]
        plain_add == [fn |-> "add", ids |-> ids, embeddings |-> None,
                      documents |-> texts, metadatas |-> metadata]
    IN IF isinstance_Embeddings(s)
       THEN IF embed_outcome # "ok"
            THEN [backend |-> add(coll.backend, s.index_name, ids, None, texts, metadata,
                                  policy),
                  calls |-> <<coll.call, embed_call, plain_add>>,
                  status |-> "ok", error |-> ""]
            ELSE LET embeddings == embed_text(texts)
                 IN [backend |-> add(coll.backend, s.index_name, ids, Some(embeddings),
                                     texts, metadata, policy),
                     calls |-> <<coll.call, embed_call,
                                 [fn |-> "add", ids |-> ids, embeddings |-> Some(embeddings),
                                  documents |-> texts, metadatas |-> metadata]>>,
                     status |-> "ok", error |-> ""]
       ELSE [backend |-> add(coll.backend, s.index_name, ids, None, texts, metadata, policy),
             calls |-> <<coll.call, plain_add>>,
             status |-> "ok", error |-> ""]

\* the backend after the call, the calls issued in order, and the outcome;
\* embed_outcome is what the awaited embed_text call does ("ok" or the error it raises)
_store(s, backend, data, embed_outcome, policy) ==
    LET ids == [i \in DOMAIN data |-> StorageId(data[i])]
        texts == [i \in DOMAIN data |-> data[i].text]
        metadata == [i \in DOMAIN data |-> data[i].metadata]
        coll == _get_chroma_collection(s, backend)
        embed_call == [fn |-> "embed_text", texts |-> texts]
    IN IF isinstance_Embeddings(s)
       THEN IF embed_outcome # "ok"
            THEN [backend |-> coll.backend,
                  calls |-> <<coll.call, embed_call>>,
                  status |-> "raised", error |-> embed_outcome]
            ELSE LET embeddings == embed_text(texts)
                 IN [backend |-> add(coll.backend, s.index_name, ids, Some(embeddings),
                                     texts, metadata, policy),
                     calls |-> <<coll.call, embed_call,
                                 [fn |-> "add", ids |-> ids, embeddings |-> Some(embeddings),
                                  documents |-> texts, metadatas |-> metadata]>>,
                     status |-> "ok", error |-> ""]
       ELSE [backend |-> add(coll.backend, s.index_name, ids, None, texts, metadata, policy),
             calls |-> <<coll.call,
                         [fn |-> "add", ids |-> ids, embeddings |-> None,
                          documents |-> texts, metadatas |-> metadata]>>,
             status |-> "ok", error |-> ""]

store(s, backend, entries, embed_outcome, policy) ==
    _store(s, backend, formatted_data(entries), embed_outcome, policy)

RECURSIVE SelectSeq2(_, _)
\* the indices among idx (ascending) kept by a filter, as a sequence
SelectSeq2(idx, keep) ==
    IF idx = <<>> THEN <<>>
    ELSE IF Head(idx) \in keep THEN <<Head(idx)>> \o SelectSeq2(Tail(idx), keep)
         ELSE SelectSeq2(Tail(idx), keep)

\* variant of retrieve that drops the rows farther than max_distance, as find_similar does
retrieve_within_max_distance(s, query_result) ==
    LET documents == query_result.documents
        metadatas == query_result.metadatas
        distances == query_result.distances
        n == Min(Len(documents), Len(metadatas))
        keep == { i \in 1..n : \/ s.max_distance = None
                               \/ Len(distances[i]) = 0
                               \/ distances[i][1] <= s.max_distance[1] }
        kept == SelectSeq2([i \in 1..n |-> i], keep)
    IN IF \E i \in keep : Len(metadatas[i]) = 0 \/ Len(documents[i]) = 0
       THEN IndexError
       ELSE Returned([j \in DOMAIN kept |->
                        VectorDBEntry(metadatas[kept[j]][1].key, documents[kept[j]][1],
                                      metadatas[kept[j]][1].metadata)])

\* the loop of retrieve over zip(documents, metadatas): one entry per pair,
\* built from the pair's first document and first metadata
retrieve(s, query_result) ==
    LET documents == query_result.documents
        metadatas == query_result.metadatas
        n == Min(Len(documents), Len(metadatas))
    IN IF \E i \in 1..n : Len(metadatas[i]) = 0 \/ Len(documents[i]) = 0
       THEN IndexError
       ELSE Returned([i \in 1..n |->
                        VectorDBEntry(metadatas[i][1].key, documents[i][1],
                                      metadatas[i][1].metadata)])

\* find_similar after the collection was fetched and the text embedded:
\* the query call issued for the text, and the outcome for the rows the backend gave
find_similar(s, text, retrieved) ==
    LET query_call == IF isinstance_Embeddings(s)
                      THEN [fn |-> "query", query_embeddings |-> embed_text(<<text>>),
                            n_results |-> 1]
                      ELSE [fn |-> "query", query_texts |-> <<text>>, n_results |-> 1]
    IN [call |-> query_call, outcome |-> _return_best_match(s, retrieved)]

-----------------------------------------------------------------------------
(* State machine *)

NoCall ==
    [op |-> "none", status |-> "ok", error |-> "", calls |-> <<>>,
     entries |-> <<>>, vector |-> <<>>, k |-> 0, text |-> "",
     embed_outcome |-> "ok", retrieved |-> None, value |-> None]

Init ==
    /\ chromadb_available \in BOOLEAN
    \* with chromadb importable the annotations evaluate the same way on every
    \* interpreter, so one value stands for both
    /\ eager_annotations \in (IF chromadb_available THEN {TRUE} ELSE BOOLEAN)
    /\ add_policy \in AddPolicies
    /\ module = "unloaded"
    /\ HAS_CHROMADB = None
    /\ self = None
    /\ chroma = <<>>
    /\ stored = {}
    /\ last = NoCall

\* the module is imported: the try/except sets HAS_CHROMADB, then the class body
\* runs its def statements, whose annotations name chromadb.ClientAPI and
\* chromadb.Collection
ImportModule ==
    /\ module = "unloaded"
    /\ HAS_CHROMADB' = Some(chromadb_available)
    /\ IF ~chromadb_available /\ eager_annotations
       THEN /\ module' = "failed"
            /\ last' = [NoCall EXCEPT !.op = "import", !.status = "raised",
                                      !.error = "NameError"]
       ELSE /\ module' = "loaded"
            /\ last' = [NoCall EXCEPT !.op = "import"]
    /\ UNCHANGED <<chromadb_available, eager_annotations, add_policy, self, chroma, stored>>

Construct(index_name, embedding_function, max_distance, distance_method) ==
    /\ module = "loaded"
    /\ self = None
    /\ IF ~HAS_CHROMADB[1]
       THEN /\ self' = self
            /\ last' = [NoCall EXCEPT !.op = "__init__", !.status = "raised",
                                      !.error = "ImportError"]
       ELSE /\ self' = Some(__init__(index_name, embedding_function, max_distance,
                                     distance_method))
            /\ last' = [NoCall EXCEPT !.op = "__init__"]
    /\ UNCHANGED <<chromadb_available, eager_annotations, add_policy, module,
                   HAS_CHROMADB, chroma, stored>>

CallStore(entries, embed_outcome) ==
    /\ self # None
    /\ isinstance_Embeddings(Attrs) \/ embed_outcome = "ok"
    /\ LET r == store(Attrs, chroma, entries, embed_outcome, add_policy)
       IN /\ chroma' = r.backend
          /\ stored' = IF r.status = "ok"
                       THEN stored \cup { entries[i] : i \in DOMAIN entries }
                       ELSE stored
          /\ last' = [NoCall EXCEPT !.op = "store", !.status = r.status,
                                    !.error = r.error, !.calls = r.calls,
                                    !.entries = entries,
                                    !.embed_outcome = embed_outcome]
    /\ UNCHANGED <<chromadb_available, eager_annotations, add_policy, module,
                   HAS_CHROMADB, self>>

CallRetrieve(vector, k) ==
    /\ self # None
    /\ LET coll == _get_chroma_collection(Attrs, chroma)
       IN /\ chroma' = coll.backend
          /\ \E query_result \in query(coll.backend, Attrs.index_name, vector, k) :
                LET r == retrieve(Attrs, query_result)
                IN last' = [NoCall EXCEPT
                              !.op = "retrieve", !.status = r.status, !.error = r.error,
                              !.calls = <<coll.call,
                                          [fn |-> "query", query_embeddings |-> <<vector>>,
                                           n_results |-> k]>>,
                              !.vector = vector, !.k = k,
                              !.retrieved = Some(query_result), !.value = r.value]
    /\ UNCHANGED <<chromadb_available, eager_annotations, add_policy, module,
                   HAS_CHROMADB, self, stored>>

CallFindSimilar(text, embed_outcome) ==
    /\ self # None
    /\ isinstance_Embeddings(Attrs) \/ embed_outcome = "ok"
    /\ LET coll == _get_chroma_collection(Attrs, chroma)
           embed_call == [fn |-> "embed_text", texts |-> <<text>>]
       IN /\ chroma' = coll.backend
          /\ IF isinstance_Embeddings(Attrs) /\ embed_outcome # "ok"
             THEN last' = [NoCall EXCEPT
                             !.op = "find_similar", !.status = "raised",
                             !.error = embed_outcome,
                             !.calls = <<coll.call, embed_call>>,
                             !.text = text, !.embed_outcome = embed_outcome]
             ELSE \E retrieved \in query(coll.backend, Attrs.index_name, EmbedOne(text), 1) :
                    LET r == find_similar(Attrs, text, retrieved)
                    IN last' = [NoCall EXCEPT
                                  !.op = "find_similar", !.status = r.outcome.status,
                                  !.error = r.outcome.error,
                                  !.calls = IF isinstance_Embeddings(Attrs)
                                            THEN <<coll.call, embed_call, r.call>>
                                            ELSE <<coll.call, r.call>>,
                                  !.text = text, !.retrieved = Some(retrieved),
                                  !.value = r.outcome.value]
    /\ UNCHANGED <<chromadb_available, eager_annotations, add_policy, module,
                   HAS_CHROMADB, self, stored>>

Next ==
    \/ ImportModule
    \/ \E n \in IndexNames, ef \in EmbeddingFunctionKinds,
          md \in MaxDistances, dm \in DistanceMethods : Construct(n, ef, md, dm)
    \/ \E entries \in Batches, eo \in EmbedOutcomes : CallStore(entries, eo)
    \/ \E vector \in Vectors, k \in 1..MaxK : CallRetrieve(vector, k)
    \/ \E text \in Texts, eo \in EmbedOutcomes : CallFindSimilar(text, eo)

Spec == Init /\ [][Next]_vars

-----------------------------------------------------------------------------
(* Properties *)

\* the rows of the store's collection ( <<>> while the collection does not exist)
Rows == IF self # None /\ Attrs.index_name \in DOMAIN chroma
        THEN chroma[Attrs.index_name].rows
        ELSE <<>>

\* the rows the backend's query returned to the last call
ReturnedDocuments == last.retrieved[1].documents[1]
ReturnedDistances == last.retrieved[1].distances[1]

CallsNamed(fn) == { i \in DOMAIN last.calls : last.calls[i].fn = fn }

\* C1: retrieve(vector, k) on a collection of m rows completes without error and
\* returns exactly min(k, m) entries, one per row the backend's query returned.
C1_RetrieveReturnsMinKM ==
    last.op = "retrieve" =>
        /\ last.status = "ok"
        /\ Len(last.value) = Min(last.k, Len(Rows))
        /\ Len(last.value) = Len(ReturnedDocuments)

\* C2: find_similar returns None and does not raise when the backend's 1-NN
\* query result is empty, whatever max_distance and the embedding mode.
C2_FindSimilarEmptyIsNone ==
    (last.op = "find_similar" /\ Len(last.retrieved) = 1 /\ Len(ReturnedDocuments) = 0)
        => (last.status = "ok" /\ last.value = None)

\* C3: when the 1-NN query gives a best match (document d, distance x), find_similar
\* returns d if max_distance is unset or x <= max_distance, and None otherwise.
C3_ThresholdPolicy ==
    (last.op = "find_similar" /\ Len(last.retrieved) = 1 /\ Len(ReturnedDocuments) > 0)
        => /\ last.status = "ok"
           /\ IF Attrs.max_distance = None
              THEN last.value = Some(ReturnedDocuments[1])
              ELSE IF ReturnedDistances[1] <= Attrs.max_distance[1]
                   THEN last.value = Some(ReturnedDocuments[1])
                   ELSE last.value = None

\* C3 witness: the best match lies exactly at max_distance and is returned.
C3_Witness ==
    /\ last.op = "find_similar"
    /\ Len(last.retrieved) = 1
    /\ Len(ReturnedDocuments) > 0
    /\ Attrs.max_distance # None
    /\ ReturnedDistances[1] = Attrs.max_distance[1]
    /\ last.value = Some(ReturnedDocuments[1])

\* C4: for every entry e passed to a store call that returned, a later retrieve
\* with e's own embedding returns a result holding an entry with e's key and metadata.
\* Stated for the case that leaves no room for doubt: no other stored entry shares
\* e's payload (so e's row is e's alone), and k is at least the number of rows (so
\* every row is due in the result, whatever the ranking).
C4_StoreRetrieveRoundTrip ==
    (last.op = "retrieve" /\ last.k >= Len(Rows)) =>
        \A e \in stored :
            (/\ last.vector = EmbedOne(e.vector)
             /\ \A o \in stored : o.vector = e.vector => o = e)
                => /\ last.status = "ok"
                   /\ \E i \in DOMAIN last.value :
                         /\ last.value[i].key = e.key
                         /\ last.value[i].metadata = e.metadata

\* the add call of the last store, when it issued one
AddCall == last.calls[Len(last.calls)]

\* C5 (state part): the IDs of a store are decided by the payload text alone, within
\* the batch and against every row written by earlier calls, and no ID or payload
\* has two rows.
C5_IdsByPayload ==
    /\ \A i, j \in DOMAIN Rows :
          i # j => (Rows[i].id # Rows[j].id /\ Rows[i].document # Rows[j].document)
    /\ (last.op = "store" /\ last.status = "ok") =>
          /\ \A i, j \in DOMAIN last.entries :
                last.entries[i].vector = last.entries[j].vector
                    => AddCall.ids[i] = AddCall.ids[j]
          /\ \A i \in DOMAIN last.entries : \A r \in DOMAIN Rows :
                last.entries[i].vector = Rows[r].document
                    => AddCall.ids[i] = Rows[r].id

\* C5 (step part): a store of entries that were all stored before leaves the set of
\* IDs, and the number of rows, as they were.
C5_RestoreKeepsIds ==
    (/\ last'.op = "store"
     /\ last'.status = "ok"
     /\ \A i \in DOMAIN last'.entries : last'.entries[i] \in stored)
        => /\ RowIds(chroma'[Attrs.index_name].rows) = RowIds(Rows)
           /\ Len(chroma'[Attrs.index_name].rows) = Len(Rows)

\* C5: the storage ID is a function of the payload text alone, whatever the key,
\* the metadata and the store call; storing the same entries again leaves the
\* collection with the same set of IDs and no duplicate row.
C5_ContentDerivedIds == [](C5_IdsByPayload) /\ [][C5_RestoreKeepsIds]_vars

\* C5 witness: one store of two entries with the same payload and different keys
\* left a single row.
C5_Witness ==
    /\ last.op = "store"
    /\ last.status = "ok"
    /\ Len(last.entries) = 2
    /\ last.entries[1].vector = last.entries[2].vector
    /\ last.entries[1].key # last.entries[2].key
    /\ Len(Rows) = 1

\* C6: with chromadb unavailable nothing fails before construction, and construction
\* fails with the constructor's ImportError, no attribute set and no backend call made.
C6_ConstructorFailsFast ==
    ~chromadb_available =>
        /\ module # "failed"
        /\ last.op = "__init__" =>
              /\ last.status = "raised"
              /\ last.error = "ImportError"
              /\ self = None
              /\ DOMAIN chroma = {}

\* C7: store, retrieve and find_similar each issue get-or-create on index_name with
\* the configured metric before any add or query; afterwards the collection exists,
\* it is the only collection, and it carries the configured metric.
C7_GetOrCreateFirst ==
    last.op \in {"store", "retrieve", "find_similar"} =>
        /\ last.calls[1].fn = "get_or_create_collection"
        /\ last.calls[1].name = Attrs.index_name
        /\ last.calls[1].metadata = Attrs._metadata
        /\ CallsNamed("get_or_create_collection") = {1}
        /\ DOMAIN chroma = {Attrs.index_name}
        /\ chroma[Attrs.index_name].metadata = Attrs._metadata

\* C7 witness: a find_similar on a collection that an earlier store created and
\* filled, under a metric other than the default.
C7_Witness ==
    /\ last.op = "find_similar"
    /\ Len(Rows) > 0
    /\ Attrs._metadata["hnsw:space"] = "ip"
    /\ CallsNamed("query") # {}

\* C8: with an internal provider a store makes one embed_text call with the payload
\* texts in input order, before its single add; with a backend-native function it
\* makes no embedding call and the add carries no embeddings; the i-th ID, text,
\* metadata and embedding written belong to the i-th entry.
C8_OneBatchedEmbedThenAdd ==
    last.op = "store" =>
        LET texts == [i \in DOMAIN last.entries |-> last.entries[i].vector]
            Aligned(a) ==
                /\ DOMAIN a.ids = DOMAIN last.entries
                /\ a.documents = texts
                /\ DOMAIN a.metadatas = DOMAIN last.entries
                /\ \A i \in DOMAIN last.entries :
                      /\ a.ids[i] = sha256_hexdigest(last.entries[i].vector)
                      /\ a.metadatas[i].key = last.entries[i].key
                      /\ a.metadatas[i].metadata = last.entries[i].metadata
        IN IF isinstance_Embeddings(Attrs)
           THEN /\ CallsNamed("embed_text") = {2}
                /\ last.calls[2].texts = texts
                /\ IF last.embed_outcome = "ok"
                   THEN /\ CallsNamed("add") = {3}
                        /\ Len(last.calls) = 3
                        /\ Aligned(last.calls[3])
                        /\ last.calls[3].embeddings = Some(embed_text(texts))
                   ELSE CallsNamed("add") = {}
           ELSE /\ CallsNamed("embed_text") = {}
                /\ CallsNamed("add") = {2}
                /\ Len(last.calls) = 2
                /\ Aligned(last.calls[2])
                /\ last.calls[2].embeddings = None

\* C8 witness: a store of two entries with different payloads, keys and metadata
\* through an internal provider.
C8_Witness ==
    /\ last.op = "store"
    /\ last.status = "ok"
    /\ isinstance_Embeddings(Attrs)
    /\ Len(last.entries) = 2
    /\ last.entries[1].vector # last.entries[2].vector
    /\ last.entries[1].key # last.entries[2].key
    /\ last.entries[1].metadata # last.entries[2].metadata

\* C9: retrieve filters nothing by distance: for the rows the backend returned, its
\* outcome is the same under every setting of max_distance.
C9_RetrieveIgnoresMaxDistance ==
    last.op = "retrieve" =>
        \A md \in MaxDistances :
            LET r == retrieve([Attrs EXCEPT !.max_distance = md], last.retrieved[1])
            IN /\ r.status = last.status
               /\ r.value = last.value

\* C9 witness: a retrieve whose nearest row lies farther than max_distance and is
\* returned all the same.
C9_Witness ==
    /\ last.op = "retrieve"
    /\ last.status = "ok"
    /\ Attrs.max_distance # None
    /\ \A i \in DOMAIN ReturnedDistances : ReturnedDistances[i] > Attrs.max_distance[1]
    /\ Len(last.value) > 0

\* a step that is a store whose embed_text call raised
C10_Step ==
    (last'.op = "store" /\ last'.embed_outcome # "ok")
        => /\ last'.status = "raised"
           /\ last'.error = last'.embed_outcome
           /\ { i \in DOMAIN last'.calls : last'.calls[i].fn = "embed_text" } = {2}
           /\ { i \in DOMAIN last'.calls : last'.calls[i].fn = "add" } = {}
           /\ Len(last'.calls) = 2
           /\ chroma'[Attrs.index_name].rows = Rows
           /\ stored' = stored

\* C10: when embed_text raises during a store, the caller gets that error, embed_text
\* was called once, no add was issued and the rows of the collection are as before;
\* the collection may have been created.
C10_EmbedFailureLeavesRows == [][C10_Step]_vars

\* C10 witness: a store of a non-empty batch failed in embed_text on a collection
\* that already holds rows.
C10_Witness ==
    /\ last.op = "store"
    /\ last.status = "raised"
    /\ last.error = "EmbeddingConnectionError"
    /\ Len(last.entries) > 0
    /\ Len(Rows) > 0

====
